---- MODULE Spec2Model ----
(***************************************************************************)
(* Model of src/APP.py, a Streamlit page.  Streamlit runs the whole script *)
(* from top to bottom on every user interaction (a "script run"); an       *)
(* exception that no statement catches ends the run and is shown as an     *)
(* error.  State that survives a run: the st.cache_data entry of           *)
(* load_data().  Everything else is local to one run.                      *)
(*                                                                         *)
(* Text is modelled as a sequence of one-character strings, so that the    *)
(* population clean-up (line 127) and the case-insensitive search (lines   *)
(* 194-195) are computed character by character.  A DataFrame is a         *)
(* sequence of records (its rows, in index order) together with its set of *)
(* column labels.                                                          *)
(***************************************************************************)
EXTENDS Integers, Sequences, FiniteSets, TLC

VARIABLES
    cache,        \* st.cache_data entry of load_data(): NoData or the rows returned
    refresh_cleared, \* the refresh button removed a cached dataset of at least one
                     \* record, and load_data has not returned since
    fetch_failed, \* pd.read_html (line 109) raised in this run
    pc,           \* position of the current script run
    error,        \* the exception that ended the run, "none" while there is none
    df_all,       \* line 163
    top_n,        \* line 150
    min_pop,      \* line 166
    selected_countries, \* line 175
    query,        \* line 177
    only_mapped,  \* line 178
    df,           \* lines 186-208: the view
    shown,        \* <<what the header and KPI cards display>> (lines 212-244), <<>> before
    map_info      \* line 256: "No coordinates available for the current selection."

vars == <<cache, refresh_cleared, fetch_failed, pc, error, df_all, top_n, min_pop,
          selected_countries, query, only_mapped, df, shown, map_info>>

(***************************************************************************)
(* Bounds of the model.                                                    *)
(***************************************************************************)
\* Longest table the fetched page may hold.
MaxRows == 3
\* Largest position of the "Top N cities" slider (stands for 500).
MaxTopN == 3

NoData == "NoData"
Nothing == "Nothing"

\* City and country cells of the fetched table.
Cities == { <<"c">>, <<"A", "b">> }
CountryNames == { <<"x">>, <<"a", "b">> }
\* Population cells of the fetched table, after .astype(str):
\* "", "-1", "0", "0,2" and ".2M".
PopStrings ==
    { <<>>, <<"-", "1">>, <<"0">>, <<"0", ",", "2">>, <<".", "2", "M">> }
\* Texts typed into the search box (no regular-expression metacharacters):
\* "" and "aB".
Queries == { <<>>, <<"a", "B">> }

RawRows == [City : Cities, Country : CountryNames, Population : PopStrings]

\* The tables pd.read_html may return as tables[0].
RawTables == UNION { [1..n -> RawRows] : n \in 0..MaxRows }

Min(a, b) == IF a <= b THEN a ELSE b

(***************************************************************************)
(* Text                                                                    *)
(***************************************************************************)
Digits == { "0", "1", "2", "3", "4", "5", "6", "7", "8", "9" }

IsDigit(c) == c \in Digits

DigitVal(c) ==
    CASE c = "0" -> 0 [] c = "1" -> 1 [] c = "2" -> 2 [] c = "3" -> 3 [] c = "4" -> 4
      [] c = "5" -> 5 [] c = "6" -> 6 [] c = "7" -> 7 [] c = "8" -> 8 [] c = "9" -> 9

\* str.replace(r"[^\d]", "", regex=True): every character that is not a digit goes.
StripNonDigits(s) == SelectSeq(s, IsDigit)

\* int of a string of digits (astype("int64") of a non-empty digit string).
RECURSIVE DigitsToInt(_)
DigitsToInt(s) ==
    IF s = <<>> THEN 0
    ELSE 10 * DigitsToInt(SubSeq(s, 1, Len(s) - 1)) + DigitVal(s[Len(s)])

\* astype("int64") raises ValueError on the empty string.
CleanRaises(popstr) == StripNonDigits(popstr) = <<>>

CleanPopulation(popstr) == DigitsToInt(StripNonDigits(popstr))

\* str.lower on the letters in use.
LowerChar(c) ==
    CASE c = "A" -> "a" [] c = "B" -> "b" [] c = "C" -> "c" [] c = "X" -> "x" [] OTHER -> c

Lower(s) == [i \in 1..Len(s) |-> LowerChar(s[i])]

\* Series.str.contains(q, case=False) for a literal q: q occurs in s, case ignored.
StrContains(s, q) ==
    \E i \in 1..(Len(s) - Len(q) + 1) :
        SubSeq(Lower(s), i, i + Len(q) - 1) = Lower(q)

(***************************************************************************)
(* DataFrame helpers                                                       *)
(***************************************************************************)
\* The permutations of 1..n, for every length a frame can have.
IndexPermutations ==
    [n \in 0..MaxRows |->
        { p \in [1..n -> 1..n] : \A i, j \in 1..n : p[i] = p[j] => i = j }]

IsSortedDesc(rows) ==
    \A i \in 1..(Len(rows) - 1) : rows[i].Population >= rows[i + 1].Population

\* sort_values("Population", ascending=False): the default kind, quicksort, is not
\* a stable sort, so rows of equal Population may come out in any order.
SortValuesDesc(rows) ==
    { s \in { [i \in 1..Len(rows) |-> rows[p[i]]] : p \in IndexPermutations[Len(rows)] } :
        IsSortedDesc(s) }

\* DataFrame.head(n)
Head_(rows, n) == SubSeq(rows, 1, Min(n, Len(rows)))

(***************************************************************************)
(* load_data (lines 106-135)                                               *)
(***************************************************************************)
WikiSource == "Wikipedia (List of largest cities)"

\* Lines 131-132: the frame load_data returns has exactly these columns.
LoadColumns == { "City", "Country", "Population", "Source" }

\* load_data() is always called without an argument (line 163), so top_n is its
\* default, 500, which is also the largest position of the "Top N" slider.
LoadTopN == MaxTopN

\* Lines 124-132, one row: the cleaned Population, the three kept columns, Source.
CleanRow(raw) ==
    [City |-> raw.City, Country |-> raw.Country,
     Population |-> CleanPopulation(raw.Population), Source |-> WikiSource]

\* Lines 112-135 on the fetched table: the results load_data can end with.  A
\* Population cell without a digit makes astype("int64") raise ValueError for
\* the whole column; otherwise the rows are sorted and cut to top_n.
LoadData(raw) ==
    IF \E i \in 1..Len(raw) : CleanRaises(raw[i].Population)
    THEN { [err |-> "ValueError", rows |-> <<>>] }
    ELSE { [err |-> "none", rows |-> Head_(s, LoadTopN)] :
             s \in SortValuesDesc([i \in 1..Len(raw) |-> CleanRow(raw[i])]) }

(***************************************************************************)
(* Sidebar (lines 141-183)                                                 *)
(***************************************************************************)
\* Positions of the "Top N cities" slider (line 152: 100, 250, 500).
TopNOptions == 1..MaxTopN

\* Positions of the "Cities shown on map" slider (line 158: 50 ... 500).
MapNOptions == { 1, MaxTopN }

RECURSIVE MaxPopOf(_)
MaxPopOf(rows) ==
    IF rows = <<>> THEN 0
    ELSE LET m == MaxPopOf(Tail(rows))
         IN  IF rows[1].Population >= m THEN rows[1].Population ELSE m

\* Line 164
MaxPop(dfall) == IF dfall = <<>> THEN 0 ELSE MaxPopOf(dfall)

\* Lines 166-172: the values the "Minimum population" slider can return.
MinPopChoices(dfall) ==
    LET max_pop == MaxPop(dfall)
        hi      == IF max_pop > 0 THEN max_pop ELSE 1
        step    == IF max_pop > 0 /\ max_pop \div 250 > 1 THEN max_pop \div 250 ELSE 1
    IN  { v \in 0..hi : v % step = 0 }

\* Lines 174-175: the options of the "Countries" multiselect.
CountryOptions(dfall) == { dfall[i].Country : i \in 1..Len(dfall) }

(***************************************************************************)
(* FILTER / PREP (lines 186-208)                                           *)
(***************************************************************************)
\* Line 187 with > in place of >=.
FilterMinPopStrict(rows, mp) ==
    LET Keep(r) == r.Population > mp IN SelectSeq(rows, Keep)

\* Line 187
FilterMinPop(rows, mp) ==
    LET Keep(r) == r.Population >= mp IN SelectSeq(rows, Keep)

\* Lines 189-190
FilterCountries(rows, sc) ==
    IF sc # {} THEN LET Keep(r) == r.Country \in sc IN SelectSeq(rows, Keep) ELSE rows

\* Lines 192-196
FilterQuery(rows, q) ==
    IF q # <<>>
    THEN LET Keep(r) == StrContains(r.City, q) \/ StrContains(r.Country, q)
         IN  SelectSeq(rows, Keep)
    ELSE rows

\* Line 199 without the "+ 1": Rank = index.
InsertRankZeroBased(rows) ==
    [i \in 1..Len(rows) |->
        [Rank |-> i - 1, City |-> rows[i].City, Country |-> rows[i].Country,
         Population |-> rows[i].Population, Source |-> rows[i].Source]]

\* Line 199, after reset_index(drop=True): Rank = index + 1.
InsertRank(rows) ==
    [i \in 1..Len(rows) |->
        [Rank |-> i, City |-> rows[i].City, Country |-> rows[i].Country,
         Population |-> rows[i].Population, Source |-> rows[i].Source]]

\* The columns of df from line 202 on.
ViewColumns == LoadColumns \cup { "Rank", "PopScale" }

\* DataFrame.dropna(subset=...): KeyError when a label of subset is no column of
\* the frame, else the rows in which every column of subset holds a value.
DropNa(rows, cols, subset) ==
    IF subset \subseteq cols
    THEN LET Keep(r) == \A c \in subset : r[c] # Nothing
         IN  [err |-> "none", rows |-> SelectSeq(rows, Keep)]
    ELSE [err |-> "KeyError", rows |-> rows]

CoordColumns == { "Latitude", "Longitude" }

\* Lines 186-208: the results the block can end with.  PopScale (lines 202-208),
\* a float column nothing below reads, is left out of the rows.
FilterPrep(dfall, tn, mp, sc, q, om) ==
    { IF om
      THEN DropNa(InsertRank(Head_(s, tn)), ViewColumns, CoordColumns)
      ELSE [err |-> "none", rows |-> InsertRank(Head_(s, tn))] :
        s \in SortValuesDesc(FilterQuery(FilterCountries(FilterMinPop(dfall, mp), sc), q)) }

(***************************************************************************)
(* HEADER / METRICS (lines 212-244)                                        *)
(***************************************************************************)
Header(view) ==
    [source_chip  |-> IF view # <<>> THEN view[1].Source ELSE "-",
     cities_shown |-> Len(view),
     largest_city |-> IF view # <<>> THEN view[1].City ELSE <<"-">>,
     largest_pop  |-> IF view # <<>> THEN view[1].Population ELSE 0]

(***************************************************************************)
(* The script run                                                          *)
(***************************************************************************)
Init ==
    /\ cache = NoData
    /\ refresh_cleared = FALSE
    /\ fetch_failed = FALSE
    /\ pc = "load"
    /\ error = "none"
    /\ df_all = NoData
    /\ top_n = MaxTopN
    /\ min_pop = 0
    /\ selected_countries = {}
    /\ query = <<>>
    /\ only_mapped = FALSE
    /\ df = <<>>
    /\ shown = <<>>
    /\ map_info = FALSE

\* A new run starts: the locals of the previous one are gone.
StartRun ==
    /\ pc' = "load"
    /\ fetch_failed' = FALSE
    /\ error' = "none"
    /\ df_all' = NoData
    /\ top_n' = MaxTopN
    /\ min_pop' = 0
    /\ selected_countries' = {}
    /\ query' = <<>>
    /\ only_mapped' = FALSE
    /\ df' = <<>>
    /\ shown' = <<>>
    /\ map_info' = FALSE

\* Any widget interaction other than the refresh button reruns the script.
Rerun ==
    /\ pc = "ended"
    /\ StartRun
    /\ UNCHANGED <<cache, refresh_cleared>>

\* Lines 146-148: the button clears every st.cache_data entry and reruns.
RefreshClick ==
    /\ pc = "ended"
    /\ cache' = NoData
    /\ refresh_cleared' = (refresh_cleared \/ (cache # NoData /\ cache # <<>>))
    /\ StartRun

\* Line 106: ttl = 7 * 24 * 3600; the entry has expired when the next run starts.
RerunAfterTtl ==
    /\ pc = "ended"
    /\ cache # NoData
    /\ cache' = NoData
    /\ StartRun
    /\ UNCHANGED refresh_cleared

\* Line 163 with a cached entry: load_data's body does not run.
LoadHit ==
    /\ pc = "load"
    /\ cache # NoData
    /\ df_all' = cache
    /\ pc' = "filters"
    /\ UNCHANGED <<cache, refresh_cleared, fetch_failed, error, top_n,
                   min_pop, selected_countries, query, only_mapped, df, shown, map_info>>

\* Line 109: pd.read_html raises (network, HTTP status, no table); nothing in
\* load_data or around its call catches it, so the run ends with the exception.
FetchFails ==
    /\ pc = "load"
    /\ cache = NoData
    /\ fetch_failed' = TRUE
    /\ error' = "FetchError"
    /\ pc' = "ended"
    /\ UNCHANGED <<cache, refresh_cleared, df_all, top_n, min_pop,
                   selected_countries, query, only_mapped, df, shown, map_info>>

\* Line 163 without a cached entry: load_data runs on the fetched table; its
\* return value is cached, an exception is not.
LoadMiss ==
    /\ pc = "load"
    /\ cache = NoData
    /\ \E raw \in RawTables : \E res \in LoadData(raw) :
         IF res.err = "none"
         THEN /\ cache' = res.rows
              /\ df_all' = res.rows
              /\ refresh_cleared' = FALSE
              /\ pc' = "filters"
              /\ UNCHANGED error
         ELSE /\ error' = res.err
              /\ pc' = "ended"
              /\ UNCHANGED <<cache, df_all, refresh_cleared>>
    /\ UNCHANGED <<fetch_failed, top_n, min_pop, selected_countries, query,
                   only_mapped, df, shown, map_info>>

\* Lines 212-256 on the view: header and KPI cards, then the Dashboard tab's map
\* frame, df.head(map_n).dropna(subset=["Latitude", "Longitude"]).
Render(view, map_n) ==
    LET map_df == DropNa(Head_(view, map_n), ViewColumns, CoordColumns)
    IN  [err      |-> map_df.err,
         shown    |-> <<Header(view)>>,
         map_info |-> (map_df.err = "none" /\ map_df.rows = <<>>)]

\* Lines 150-256: the widgets return their values, the view is computed, the
\* header and the KPI cards are written and the Dashboard tab starts.  A run
\* leaves line 256 only without an exception; the statements below it are not
\* part of the model.
PrepAndRender ==
    /\ pc = "filters"
    /\ \E tn \in TopNOptions, map_n \in MapNOptions, mp \in MinPopChoices(df_all),
          sc \in SUBSET CountryOptions(df_all), q \in Queries, om \in BOOLEAN :
         \E res \in FilterPrep(df_all, tn, mp, sc, q, om) :
            /\ top_n' = tn
            /\ min_pop' = mp
            /\ selected_countries' = sc
            /\ query' = q
            /\ only_mapped' = om
            /\ df' = res.rows
            /\ IF res.err # "none"
               THEN /\ error' = res.err
                    /\ pc' = "ended"
                    /\ UNCHANGED <<shown, map_info>>
               ELSE LET page == Render(res.rows, map_n)
                    IN  /\ shown' = page.shown
                        /\ map_info' = page.map_info
                        /\ error' = page.err
                        /\ pc' = IF page.err = "none" THEN "dash_map" ELSE "ended"
    /\ UNCHANGED <<cache, refresh_cleared, fetch_failed, df_all>>

Next ==
    \/ Rerun
    \/ RefreshClick
    \/ RerunAfterTtl
    \/ LoadHit
    \/ FetchFails
    \/ LoadMiss
    \/ PrepAndRender

Spec == Init /\ [][Next]_vars

(***************************************************************************)
(* Properties                                                              *)
(***************************************************************************)
\* A view was computed and shown by the header and the KPI cards (lines 212-244).
ViewShown == shown # <<>>

\* FILTER / PREP ran in this run (it finished or raised).
PrepRan == df_all # NoData /\ pc \in { "ended", "dash_map" }

GeoNamesSource == "GeoNames"

\* C1: after a refresh that removed a cached dataset D (of at least one record)
\* and whose fetch fails, a dataset is still in effect (D: nothing else was
\* loaded), the run shows a view of it and ends without an exception.
C1_StaleDataKept ==
    (refresh_cleared /\ fetch_failed)
        => (error = "none" /\ df_all # NoData /\ df_all # <<>> /\ ViewShown)

\* C2: when the fetch of the primary source fails, no exception ends the run and
\* the loaded rows are the next source's, each tagged with its name (GeoNames).
C2_FallbackToGeoNames ==
    fetch_failed
        => /\ error # "FetchError"
           /\ df_all # NoData
           /\ \A i \in 1..Len(df_all) : df_all[i].Source = GeoNamesSource

\* Search as the claim words it: the text occurs in the field, case ignored.
C3_Fold(c) ==
    CASE c = "a" -> "A" [] c = "b" -> "B" [] c = "c" -> "C" [] c = "x" -> "X" [] OTHER -> c

C3_Matches(text, q) ==
    \E i \in 0..Len(text) :
        /\ i + Len(q) <= Len(text)
        /\ \A k \in 1..Len(q) : C3_Fold(text[i + k]) = C3_Fold(q[k])

C3_Passes(r) ==
    /\ r.Population >= min_pop
    /\ selected_countries # {} => r.Country \in selected_countries
    /\ query # <<>> => (C3_Matches(r.City, query) \/ C3_Matches(r.Country, query))

C3_Passing == { i \in 1..Len(df_all) : C3_Passes(df_all[i]) }

C3_SameRecord(v, r) ==
    /\ v.City = r.City
    /\ v.Country = r.Country
    /\ v.Population = r.Population
    /\ v.Source = r.Source

C4_HasCoords(r) ==
    /\ CoordColumns \subseteq DOMAIN r
    /\ \A c \in CoordColumns : r[c] # Nothing

\* C4: with requireCoordinates = true the view (here of a dataset of at least
\* one record) is the topN most populous of the passing records that have
\* coordinates, so it holds min(topN, their number) rows.
C4_CoordsFilterBeforeTopN ==
    (PrepRan /\ only_mapped /\ df_all # <<>>) =>
        /\ error = "none"
        /\ Len(df) = Min(top_n, Cardinality({ i \in C3_Passing : C4_HasCoords(df_all[i]) }))
        /\ \A k \in 1..Len(df) : C4_HasCoords(df[k])

\* C5: in every view the record at position k has Rank k.
C5_RankIsPosition ==
    \A k \in 1..Len(df) : df[k].Rank = k

\* C5's case: a view of two or more rows that a filter shortened and whose
\* first row is not the dataset's first row.
C5_Witness ==
    /\ ViewShown
    /\ Len(df) >= 2
    /\ Len(df) < Len(df_all)
    /\ ~ C3_SameRecord(df[1], df_all[1])
    /\ df[2].Rank = 2

\* Code points of the characters in use.
C6_Ord(c) ==
    CASE c = "A" -> 65 [] c = "B" -> 66 [] c = "C" -> 67 [] c = "X" -> 88
      [] c = "a" -> 97 [] c = "b" -> 98 [] c = "c" -> 99 [] c = "x" -> 120

RECURSIVE C6_LexLeq(_, _)
C6_LexLeq(s, t) ==
    IF s = <<>> THEN TRUE
    ELSE IF t = <<>> THEN FALSE
    ELSE IF C6_Ord(s[1]) # C6_Ord(t[1]) THEN C6_Ord(s[1]) < C6_Ord(t[1])
    ELSE C6_LexLeq(Tail(s), Tail(t))

\* C6: the view is ordered by population descending, ties by city ascending
\* (which makes it the same for every order of the input records).
C6_TiesByCity ==
    ViewShown =>
        \A k \in 1..(Len(df) - 1) :
            \/ df[k].Population > df[k + 1].Population
            \/ /\ df[k].Population = df[k + 1].Population
               /\ C6_LexLeq(df[k].City, df[k + 1].City)

\* C8: cleaning a population cell never raises, and every record of the loaded
\* dataset has a population above zero.
C8_PopulationCoercion ==
    /\ error # "ValueError"
    /\ cache # NoData => \A i \in 1..Len(cache) : cache[i].Population > 0

\* C10: for a dataset (of at least one record) without coordinates a run with
\* requireCoordinates = false ends without an exception, keeps every passing
\* record up to topN, and reports that no coordinates are available for the map.
C10_NoCoordinatesIsValid ==
    (PrepRan /\ ~ only_mapped /\ df_all # <<>>) =>
        /\ error = "none"
        /\ Len(df) = Min(top_n, Cardinality(C3_Passing))
        /\ map_info

====
